---- MODULE Spec2Model ----
(***************************************************************************)
(* A model of the context memory pipeline of ina_assistant:                *)
(*   - TextChunker (src/memory/chunking.py)                                *)
(*   - VectorStore (src/memory/vector_store.py)                            *)
(*   - FileHandler (src/services/file_handler.py)                          *)
(*   - TelegramBot.handle_message (src/services/telegram.py)               *)
(* Texts are sequences of one-character strings.                           *)
(***************************************************************************)
EXTENDS Integers, Sequences, FiniteSets, TLC

VARIABLES
    c_pc,        \* chunk_text call: "off", "ready", "done"
    c_text,      \* the argument of chunk_text
    c_max,       \* TextChunker.max_chunk_size
    c_overlap,   \* TextChunker.overlap
    c_runs,      \* per returned chunk, the positions of the sentences in it
    c_chunks     \* the list chunk_text returned

VARIABLES
    ina_messages,    \* table ina_messages, in insertion order
    ina_message_embeddings,  \* table ina_message_embeddings, in insertion order
    now          \* the clock that stamps created_at

VARIABLES
    s_pc,        \* ina_search_similar call: "off", "ready", "loop", "done"
    s_args,      \* its arguments
    s_rows,      \* result.data, the rows the storage layer returned
    s_results,   \* the list it returns
    s_outcome,   \* "none", "returned", "raised"
    s_error      \* the exception it raised: "none", "APIError", "KeyError"

VARIABLES
    pc,          \* position of handle_message; "end": it returned,
                 \* "raised": it raised
    req,         \* the update it handles: text, user_id, chat_id
    nreq,        \* number of updates handled so far
    pm,          \* locals of ina_process_message and how it ended
    ctx,         \* conversation_context
    stage,       \* status of each of the four tasks of the crew
    pipeline,    \* crew.kickoff(): "none", "running", "done", "failed"
    replies,     \* the texts reply_text sent for this update
    cancelled    \* the cancellation of the handler's task: "no", "requested", "delivered"

VARIABLES
    v_pc,        \* VectorCompressor call: "off", "ready", "done"
    v_op,        \* the method called: "none", "compress", "compress_single"
    v_target,    \* VectorCompressor.target_dimensions
    v_vectors,   \* the argument: a list of vectors of one dimension
    v_out        \* what the call returned

VARIABLES
    vs_op,       \* the VectorStore method called last, "none" before the first
    vs_args,     \* its arguments
    vs_ret,      \* how it ended and what it returned
    vs_embedded  \* the message ids ina_save_embeddings was called for

VARIABLES
    e_pc,        \* get_embeddings call: "off", "ready", "loop", "done"
    e_texts,     \* its argument
    e_i,         \* the loop variable i, the start of the next batch
    e_all,       \* all_embeddings
    e_calls,     \* every create() call made: the start index i and the input
    e_ret        \* how the call ended: the list returned or the error raised

VARIABLES
    d_pc,        \* position of each of the two concurrent calls
    d_in,        \* the update each call works on
    d_loc,       \* the locals of ina_process_file / ina_process_message
    d_replies,   \* the texts reply_text sent in each call
    d_provider   \* how often each call called the embedding provider

chunkVars == <<c_pc, c_text, c_max, c_overlap, c_runs, c_chunks>>
storeVars == <<ina_messages, ina_message_embeddings, now>>
searchVars == <<s_pc, s_args, s_rows, s_results, s_outcome, s_error>>

flowVars == <<pc, req, nreq, pm, ctx, stage, pipeline, replies, cancelled>>
compVars == <<v_pc, v_op, v_target, v_vectors, v_out>>
callVars == <<vs_op, vs_args, vs_ret, vs_embedded>>
embedVars == <<e_pc, e_texts, e_i, e_all, e_calls, e_ret>>
docVars == <<d_pc, d_in, d_loc, d_replies, d_provider>>

vars == <<chunkVars, storeVars, searchVars, flowVars, compVars, callVars, embedVars,
          docVars>>

(***************************************************************************)
(* Bounds of the model.                                                    *)
(***************************************************************************)
MaxTextLen == 7
MaxChunkBound == 4
MaxStoreRows == 2
MaxLimit == 2
MaxAge == 1
MaxUserId == 1
MaxRequests == 2
MaxTargetDim == 3
MaxSourceDim == 5
MaxVectors == 2
MaxHistory == 6
MaxTexts == 17

\* TextChunker.__init__ defaults, used by FileHandler
DefaultMaxChunkSize == 1000
DefaultOverlap == 100
\* ina_get_conversation_context(limit=5)
ContextLimit == 5
\* get_embeddings: batch_size = 16
batch_size == 16

Alphabet == {"a", ".", " "}
Whitespace == {" "}
Punct == {".", "!", "?"}

\* the text "A. B. C." of the chunking scenario
ScenarioText == <<"A", ".", " ", "B", ".", " ", "C", ".">>

Texts == UNION {[1..n -> Alphabet] : n \in 0..MaxTextLen} \cup {ScenarioText}

(***************************************************************************)
(* TextChunker                                                             *)
(***************************************************************************)
IsWs(c) == c \in Whitespace

RECURSIVE DropWs(_)
DropWs(t) ==
    IF t # <<>> /\ IsWs(Head(t)) THEN DropWs(Tail(t)) ELSE t

RECURSIVE DropWsRight(_)
DropWsRight(t) ==
    IF t # <<>> /\ IsWs(t[Len(t)]) THEN DropWsRight(SubSeq(t, 1, Len(t) - 1)) ELSE t

\* str.strip()
Strip(t) == DropWsRight(DropWs(t))

\* re.sub(r'\s+', ' ', text)
RECURSIVE CollapseWs(_)
CollapseWs(t) ==
    IF t = <<>> THEN <<>>
    ELSE IF IsWs(Head(t)) THEN <<" ">> \o CollapseWs(DropWs(t))
    ELSE <<Head(t)>> \o CollapseWs(Tail(t))

_normalize_text(t) == Strip(CollapseWs(t))

\* re.split(r'(?<=[.!?])\s+', text): the pieces between the whitespace runs
\* that follow a sentence-ending character. prev is the character before
\* Head(t) ("" at the start of the text), cur the piece being read.
RECURSIVE SplitPieces(_, _, _)
SplitPieces(t, prev, cur) ==
    IF t = <<>> THEN <<cur>>
    ELSE IF IsWs(Head(t)) /\ prev \in Punct
         THEN <<cur>> \o SplitPieces(DropWs(t), " ", <<>>)
         ELSE SplitPieces(Tail(t), Head(t), Append(cur, Head(t)))

RECURSIVE StripNonEmpty(_)
StripNonEmpty(ps) ==
    IF ps = <<>> THEN <<>>
    ELSE IF Strip(Head(ps)) # <<>>
         THEN <<Strip(Head(ps))>> \o StripNonEmpty(Tail(ps))
         ELSE StripNonEmpty(Tail(ps))

_split_into_sentences(t) == StripNonEmpty(SplitPieces(t, "", <<>>))

\* " ".join(parts)
RECURSIVE JoinSp(_)
JoinSp(parts) ==
    IF parts = <<>> THEN <<>>
    ELSE IF Len(parts) = 1 THEN Head(parts)
    ELSE Head(parts) \o <<" ">> \o JoinSp(Tail(parts))

\* the sentences at the positions run, in that order
Pick(sents, run) == [k \in 1..Len(run) |-> sents[run[k]]]

RECURSIVE SumLen(_, _)
SumLen(sents, run) ==
    IF run = <<>> THEN 0 ELSE Len(sents[Head(run)]) + SumLen(sents, Tail(run))

\* OverlapWalk with ">=" for ">": a window that reaches overlap exactly is
\* refused
RECURSIVE OverlapWalkStrict(_, _, _, _, _)
OverlapWalkStrict(sents, cur, k, acc, overlap) ==
    IF k = 0 THEN acc
    ELSE IF SumLen(sents, acc) + Len(sents[cur[k]]) >= overlap THEN acc
    ELSE OverlapWalkStrict(sents, cur, k - 1, <<cur[k]>> \o acc, overlap)

\* the loop over reversed(current_chunk): k is the position in cur that is
\* looked at next, acc the overlap_chunk built so far
RECURSIVE OverlapWalk(_, _, _, _, _)
OverlapWalk(sents, cur, k, acc, overlap) ==
    IF k = 0 THEN acc
    ELSE IF SumLen(sents, acc) + Len(sents[cur[k]]) > overlap THEN acc
    ELSE OverlapWalk(sents, cur, k - 1, <<cur[k]>> \o acc, overlap)

\* overlap_chunk with the loop over reversed(current_chunk) left out: the
\* next chunk starts empty
OverlapNone(sents, cur, overlap) == <<>>

overlap_chunk(sents, cur, overlap) == OverlapWalk(sents, cur, Len(cur), <<>>, overlap)

\* ChunkStep without "and current_chunk": an empty current_chunk is closed
\* too
ChunkStepClosesEmpty(sents, st, i, max, overlap) ==
    LET size == Len(sents[i])
        close == st.size + size > max
        ov == overlap_chunk(sents, st.cur, overlap)
        base == IF close
                THEN [chunks |-> Append(st.chunks, st.cur), cur |-> ov,
                      size |-> SumLen(sents, ov)]
                ELSE st
    IN  [chunks |-> base.chunks, cur |-> Append(base.cur, i),
         size |-> base.size + size]

\* ChunkStep with the append moved into an else branch: the sentence that
\* closes a chunk is not put into the next one
ChunkStepDropsSentence(sents, st, i, max, overlap) ==
    LET size == Len(sents[i])
        close == st.size + size > max /\ st.cur # <<>>
        ov == overlap_chunk(sents, st.cur, overlap)
    IN  IF close
        THEN [chunks |-> Append(st.chunks, st.cur), cur |-> ov,
              size |-> SumLen(sents, ov)]
        ELSE [chunks |-> st.chunks, cur |-> Append(st.cur, i),
              size |-> st.size + size]

\* one iteration of "for sentence in sentences", on sentence number i;
\* st is [chunks, cur, size]: chunks, current_chunk and current_size, with
\* sentences held by their position in the sentence list
ChunkStep(sents, st, i, max, overlap) ==
    LET size == Len(sents[i])
        close == st.size + size > max /\ st.cur # <<>>
        ov == overlap_chunk(sents, st.cur, overlap)
        base == IF close
                THEN [chunks |-> Append(st.chunks, st.cur), cur |-> ov,
                      size |-> SumLen(sents, ov)]
                ELSE st
    IN  [chunks |-> base.chunks, cur |-> Append(base.cur, i),
         size |-> base.size + size]

RECURSIVE ChunkLoop(_, _, _, _, _)
ChunkLoop(sents, st, i, max, overlap) ==
    IF i > Len(sents) THEN st
    ELSE ChunkLoop(sents, ChunkStep(sents, st, i, max, overlap), i + 1, max, overlap)

\* the chunks of chunk_text, each as the positions of its sentences
chunk_text_runs(text, max, overlap) ==
    LET sents == _split_into_sentences(_normalize_text(text))
        st == ChunkLoop(sents, [chunks |-> <<>>, cur |-> <<>>, size |-> 0], 1, max, overlap)
    IN  IF st.cur # <<>> THEN Append(st.chunks, st.cur) ELSE st.chunks

chunk_text(text, max, overlap) ==
    LET sents == _split_into_sentences(_normalize_text(text))
        runs == chunk_text_runs(text, max, overlap)
    IN  [k \in 1..Len(runs) |-> JoinSp(Pick(sents, runs[k]))]

(***************************************************************************)
(* VectorStore.ina_search_similar                                          *)
(***************************************************************************)
\* an optional argument: absent (None) or an integer
None == [given |-> FALSE, val |-> 0]
Some(v) == [given |-> TRUE, val |-> v]
\* Python's truth value of an optional integer: None and 0 are false
Truthy(x) == x.given /\ x.val # 0

NoArgs == [query |-> <<>>, limit |-> 0, threshold |-> 0, user_id |-> None,
           time_window |-> None]

\* the parts of the state a specification does not use
ChunkOff ==
    /\ c_pc = "off" /\ c_text = <<>> /\ c_max = 1 /\ c_overlap = 0
    /\ c_runs = <<>> /\ c_chunks = <<>>

SearchOff ==
    /\ s_pc = "off" /\ s_args = NoArgs /\ s_rows = <<>> /\ s_results = <<>>
    /\ s_outcome = "none" /\ s_error = "none"

StoreEmpty ==
    /\ ina_messages = <<>> /\ ina_message_embeddings = <<>> /\ now = 0

NoCallArgs == [id |-> 0, chunks |-> <<>>, embeddings |-> <<>>]
NoRet == [outcome |-> "none", value |-> <<>>]

CallOff ==
    /\ vs_op = "off" /\ vs_args = NoCallArgs /\ vs_ret = NoRet /\ vs_embedded = {}

NoEmbedRet == [outcome |-> "none", value |-> <<>>, error |-> [kind |-> "none"]]

\* the two concurrent calls
Calls == {1, 2}

NoFileType == "None"
NoDocIn == [entry |-> "none", user_id |-> 0, chat_id |-> 0, file_name |-> <<>>,
            corrupt |-> FALSE, text |-> <<>>]
NoDocLoc == [file_type |-> NoFileType, full_text |-> <<>>, chunks |-> <<>>,
             message_id |-> 0, embeddings |-> <<>>, result |-> "none", error |-> "none"]

DocIdle(at) ==
    /\ d_pc = [p \in Calls |-> at]
    /\ d_in = [p \in Calls |-> NoDocIn]
    /\ d_loc = [p \in Calls |-> NoDocLoc]
    /\ d_replies = [p \in Calls |-> <<>>]
    /\ d_provider = [p \in Calls |-> 0]

DocOff == DocIdle("off")

EmbedOff ==
    /\ e_pc = "off" /\ e_texts = <<>> /\ e_i = 0 /\ e_all = <<>>
    /\ e_calls = <<>> /\ e_ret = NoEmbedRet

CompOff ==
    /\ v_pc = "off" /\ v_op = "none" /\ v_target = 1 /\ v_vectors = <<>>
    /\ v_out = <<>>

NoReq == [text |-> <<>>, user_id |-> 0, chat_id |-> 0]
NoPm == [chunks |-> <<>>, message_id |-> 0, vectors |-> <<>>, result |-> "none"]
NoCtx == [user_context |-> <<>>, chat_context |-> <<>>, file_context |-> <<>>]

\* the tasks list, by index: plan, execute, review, respond
Stages == 0..3
AllPending == [i \in Stages |-> "pending"]

FlowOff ==
    /\ pc = "off" /\ req = NoReq /\ nreq = 0 /\ pm = NoPm /\ ctx = NoCtx
    /\ stage = AllPending /\ pipeline = "none" /\ replies = <<>> /\ cancelled = "no"

\* embedding vectors of the model: non-zero, components 0 or 1
Vectors == {<<1, 0, 0>>, <<0, 1, 0>>, <<1, 1, 0>>}
\* thresholds, in hundredths
Thresholds == {0, 70, 90}

Dot(a, b) == a[1] * b[1] + a[2] * b[2] + a[3] * b[3]

\* the RPC calculate_similarity: 1 - cosine distance, that is the cosine of
\* the two vectors. The vectors of the model have no negative component, so
\* the cosine is >= 0 and is held by its square times 36, an integer for
\* squared norms 1, 2 and 3.
_calculate_similarity(vec1, vec2) ==
    (36 * Dot(vec1, vec2) * Dot(vec1, vec2)) \div (Dot(vec1, vec1) * Dot(vec2, vec2))

\* similarity >= threshold, the threshold in hundredths, >= 0
SimAtLeast(sim, threshold) == sim * 10000 >= 36 * threshold * threshold

MessageById(id) == CHOOSE m \in {ina_messages[i] : i \in 1..Len(ina_messages)} : m.id = id

HasMessage(id) == \E i \in 1..Len(ina_messages) : ina_messages[i].id = id

\* the columns select() names for a row e of ina_message_embeddings: id,
\* chunk_text, chunk_index, message_id and the joined message
SelectRow(e) ==
    [id |-> e.id, chunk_text |-> e.chunk_text, chunk_index |-> e.chunk_index,
     message_id |-> e.message_id, ina_messages |-> MessageById(e.message_id)]

\* the filters the query carries: eq on user_id "if user_id", gte on
\* created_at "if time_window"
QueryKeeps(e, args) ==
    /\ HasMessage(e.message_id)
    /\ Truthy(args.user_id) => MessageById(e.message_id).user_id = args.user_id.val
    /\ Truthy(args.time_window) =>
           MessageById(e.message_id).created_at >= now - args.time_window.val

Candidates(args) ==
    SelectSeq(ina_message_embeddings, LAMBDA e : QueryKeeps(e, args))

\* the orders the storage layer may return the rows rs in
Orders(rs) ==
    {p \in [1..Len(rs) -> 1..Len(rs)] : \A i, j \in 1..Len(rs) : i # j => p[i] # p[j]}

\* row["embedding"] raises KeyError when the row has no such column
HasEmbedding(row) == "embedding" \in DOMAIN row

ResultRow(row, query) ==
    [chunk_text |-> row.chunk_text,
     similarity |-> _calculate_similarity(query, row.embedding),
     message |-> row.ina_messages,
     created_at |-> row.ina_messages.created_at]

\* the loop of lines 131-140 when no row raises
RECURSIVE FilterRows(_, _, _)
FilterRows(rows, query, threshold) ==
    IF rows = <<>> THEN <<>>
    ELSE LET r == ResultRow(Head(rows), query)
             rest == FilterRows(Tail(rows), query, threshold)
         IN  IF SimAtLeast(r.similarity, threshold) THEN <<r>> \o rest ELSE rest

\* list.sort(key=similarity, reverse=True): stable, keys only
RECURSIVE InsertBySimilarity(_, _)
InsertBySimilarity(sorted, r) ==
    IF sorted = <<>> THEN <<r>>
    ELSE IF Head(sorted).similarity >= r.similarity
         THEN <<Head(sorted)>> \o InsertBySimilarity(Tail(sorted), r)
         ELSE <<r>> \o sorted

RECURSIVE SortBySimilarity(_)
SortBySimilarity(rs) ==
    IF rs = <<>> THEN <<>>
    ELSE InsertBySimilarity(SortBySimilarity(SubSeq(rs, 1, Len(rs) - 1)), rs[Len(rs)])

\* results[:limit], limit >= 0
Truncate(rs, limit) == SubSeq(rs, 1, IF limit < Len(rs) THEN limit ELSE Len(rs))

Users == 0..MaxUserId

\* a store of n messages of one chunk each
StoreOf(n, users, ages, vecs) ==
    /\ ina_messages = [i \in 1..n |->
                     [id |-> i, user_id |-> users[i], chat_id |-> users[i],
                      text |-> <<"c">>, file |-> "none",
                      created_at |-> MaxAge - ages[i]]]
    /\ ina_message_embeddings = [i \in 1..n |->
                     [id |-> i, message_id |-> i, chunk_index |-> 0,
                      chunk_text |-> <<"c", i>>, embedding |-> vecs[i]]]
    /\ now = MaxAge

OptInts(S) == {None} \cup {Some(v) : v \in S}

SearchInit ==
    /\ ChunkOff /\ FlowOff /\ CompOff /\ CallOff /\ EmbedOff /\ DocOff
    /\ \E n \in 0..MaxStoreRows :
         \E users \in [1..n -> Users], ages \in [1..n -> 0..MaxAge],
            vecs \in [1..n -> Vectors] :
              StoreOf(n, users, ages, vecs)
    /\ s_pc = "ready"
    /\ s_args \in [query : Vectors, limit : 0..MaxLimit, threshold : Thresholds,
                   user_id : OptInts(Users), time_window : OptInts(0..MaxAge)]
    /\ s_rows = <<>>
    /\ s_results = <<>>
    /\ s_outcome = "none"
    /\ s_error = "none"

\* query.execute() returns the rows, in an order of the storage layer's choice
query_execute ==
    /\ s_pc = "ready"
    /\ LET cs == Candidates(s_args)
       IN  \E p \in Orders(cs) :
              s_rows' = [i \in 1..Len(cs) |-> SelectRow(cs[p[i]])]
    /\ s_pc' = "loop"
    /\ UNCHANGED <<s_args, s_results, s_outcome, s_error>>
    /\ UNCHANGED <<storeVars, chunkVars, flowVars, compVars, callVars, embedVars, docVars>>

\* query.execute() raises (the storage layer is unreachable or rejects the
\* request); the except clause logs and raises again
query_execute_raises ==
    /\ s_pc = "ready"
    /\ s_pc' = "done"
    /\ s_outcome' = "raised"
    /\ s_error' = "APIError"
    /\ UNCHANGED <<s_args, s_rows, s_results>>
    /\ UNCHANGED <<storeVars, chunkVars, flowVars, compVars, callVars, embedVars, docVars>>

\* lines 131-150: the loop over result.data, the sort and the slice
SearchRank ==
    /\ s_pc = "loop"
    /\ IF \A i \in 1..Len(s_rows) : HasEmbedding(s_rows[i])
       THEN /\ s_results' = Truncate(SortBySimilarity(
                                FilterRows(s_rows, s_args.query, s_args.threshold)),
                                s_args.limit)
            /\ s_outcome' = "returned"
            /\ s_error' = "none"
       ELSE /\ s_results' = <<>>
            /\ s_outcome' = "raised"
            /\ s_error' = "KeyError"
    /\ s_pc' = "done"
    /\ UNCHANGED <<s_args, s_rows>>
    /\ UNCHANGED <<storeVars, chunkVars, flowVars, compVars, callVars, embedVars, docVars>>

SearchNext == query_execute \/ query_execute_raises \/ SearchRank

SpecSearch == SearchInit /\ [][SearchNext]_vars

(***************************************************************************)
(* TelegramBot.handle_message, FileHandler.ina_process_message and the     *)
(* crew of four tasks                                                      *)
(***************************************************************************)
\* str.lower() on the letters of the model
Lower(c) == IF c = "I" THEN "i" ELSE c
LowerText(t) == [k \in 1..Len(t) |-> Lower(t[k])]
StartsWith(t, prefix) == Len(t) >= Len(prefix) /\ SubSeq(t, 1, Len(prefix)) = prefix

\* text.lower().startswith(("inna", "ina"))
Triggered(t) ==
    \/ StartsWith(LowerText(t), <<"i", "n", "n", "a">>)
    \/ StartsWith(LowerText(t), <<"i", "n", "a">>)

\* SUPABASE_EMBEDDING_DIMENSION, the width the store is configured for
\* (2000 by default), scaled to the width of the vectors of the model
SUPABASE_EMBEDDING_DIMENSION == 3

\* the vectors the embedding provider answers with in the model: one of the
\* store's width and one of a narrower native width
ProviderVectors == {<<1, 0, 0>>, <<0, 1>>}

\* message.from_user.id of the updates of the model
UpdateUsers == {0, 1}

\* the chats a user writes in: the private chat, whose id is the user's id,
\* or a group chat
ChatsOf(u) == {u, -1}

\* the message texts of the model
RequestTexts ==
    { <<"i", "n", "a", " ", "a", ".">>,
      <<"I", "n", "n", "a">>,
      <<"a", ".">> }

\* the "dependencies" entry of each task; the first task has none
dependencies(i) ==
    CASE i = 0 -> {}
      [] i = 1 -> {0}
      [] i = 2 -> {0, 1}
      [] i = 3 -> {0, 1, 2}

\* insert with the rows already stored thrown away
ReplaceAll(table, rows) == rows

\* table(name).insert(rows).execute(): the rows are added after the rows
\* the table holds
insert(table, rows) == table \o rows

\* table("ina_messages").insert(data).execute(): the row as stored
NewMessage(user, chat, text, file) ==
    [id |-> Len(ina_messages) + 1, user_id |-> user, chat_id |-> chat, text |-> text,
     file |-> file, created_at |-> now]

\* rows of zip(chunks, ina_message_embeddings), numbered from 0
EmbeddingRows(message_id, chunks, vectors) ==
    LET n == IF Len(chunks) < Len(vectors) THEN Len(chunks) ELSE Len(vectors)
    IN  [k \in 1..n |->
           [id |-> Len(ina_message_embeddings) + k, message_id |-> message_id,
            chunk_index |-> k - 1, chunk_text |-> chunks[k], embedding |-> vectors[k]]]

Reverse(sq) == [k \in 1..Len(sq) |-> sq[Len(sq) + 1 - k]]

\* .order("created_at", desc=True).limit(limit); rows are stored in the
\* order of their created_at
ina_get_user_context(user, limit) ==
    Truncate(Reverse(SelectSeq(ina_messages, LAMBDA m : m.user_id = user)), limit)
ina_get_chat_context(chat, limit) ==
    Truncate(Reverse(SelectSeq(ina_messages, LAMBDA m : m.chat_id = chat)), limit)
\* .eq("user_id", user_id).not_.is_("file_content", "null")
ina_get_file_context(user) ==
    SelectSeq(ina_messages, LAMBDA m : m.user_id = user /\ m.file # "none")

FlowInit ==
    /\ ChunkOff /\ SearchOff /\ StoreEmpty /\ CompOff /\ CallOff /\ EmbedOff /\ DocOff
    /\ pc = "idle" /\ req = NoReq /\ nreq = 0 /\ pm = NoPm /\ ctx = NoCtx
    /\ stage = AllPending /\ pipeline = "none" /\ replies = <<>> /\ cancelled = "no"

\* an update whose text does not start with the trigger: return, no reply
handle_message_no_trigger ==
    /\ pc = "idle"
    /\ \E t \in RequestTexts, u \in UpdateUsers : \E c \in ChatsOf(u) :
          /\ ~Triggered(t)
          /\ req' = [text |-> t, user_id |-> u, chat_id |-> c]
    /\ pc' = "end"
    /\ UNCHANGED <<nreq, pm, ctx, stage, pipeline, replies>>
    /\ UNCHANGED <<storeVars, chunkVars, searchVars, compVars, callVars, embedVars, docVars>>
    /\ UNCHANGED cancelled

\* an update whose text starts with the trigger enters the try block
handle_message ==
    /\ pc = "idle"
    /\ \E t \in RequestTexts, u \in UpdateUsers : \E c \in ChatsOf(u) :
          /\ Triggered(t)
          /\ req' = [text |-> t, user_id |-> u, chat_id |-> c]
    /\ pc' = "pm_save"
    /\ UNCHANGED <<nreq, pm, ctx, stage, pipeline, replies>>
    /\ UNCHANGED <<storeVars, chunkVars, searchVars, compVars, callVars, embedVars, docVars>>
    /\ UNCHANGED cancelled

\* ina_process_message: chunk_text(message.text), then ina_save_message
ina_save_message ==
    /\ pc = "pm_save"
    /\ ina_messages' = insert(ina_messages,
                             <<NewMessage(req.user_id, req.chat_id, req.text, "none")>>)
    /\ now' = now + 1
    /\ pm' = [pm EXCEPT !.chunks = chunk_text(req.text, DefaultMaxChunkSize, DefaultOverlap),
                        !.message_id = Len(ina_messages) + 1]
    /\ pc' = "pm_embed"
    /\ UNCHANGED <<ina_message_embeddings, req, nreq, ctx, stage, pipeline, replies>>
    /\ UNCHANGED <<chunkVars, searchVars, compVars, callVars, embedVars, docVars>>
    /\ UNCHANGED cancelled

\* ina_save_message_raises with the error swallowed: the call goes on to
\* the embedding with no row stored
SaveErrorSwallowed ==
    /\ pc = "pm_save"
    /\ pm' = [pm EXCEPT !.chunks = chunk_text(req.text, DefaultMaxChunkSize, DefaultOverlap),
                        !.result = "raised"]
    /\ pc' = "pm_embed"
    /\ UNCHANGED <<req, nreq, ctx, stage, pipeline, replies>>
    /\ UNCHANGED <<storeVars, chunkVars, searchVars, compVars, callVars, embedVars, docVars>>
    /\ UNCHANGED cancelled

\* ina_save_message raises: nothing is stored
ina_save_message_raises ==
    /\ pc = "pm_save"
    /\ pm' = [pm EXCEPT !.chunks = chunk_text(req.text, DefaultMaxChunkSize, DefaultOverlap),
                        !.result = "raised"]
    /\ pc' = "except"
    /\ UNCHANGED <<req, nreq, ctx, stage, pipeline, replies>>
    /\ UNCHANGED <<storeVars, chunkVars, searchVars, compVars, callVars, embedVars, docVars>>
    /\ UNCHANGED cancelled

\* get_embeddings(chunks) returns one vector per chunk
get_embeddings ==
    /\ pc = "pm_embed"
    /\ \E vs \in [1..Len(pm.chunks) -> ProviderVectors] : pm' = [pm EXCEPT !.vectors = vs]
    /\ pc' = "pm_store"
    /\ UNCHANGED <<req, nreq, ctx, stage, pipeline, replies>>
    /\ UNCHANGED <<storeVars, chunkVars, searchVars, compVars, callVars, embedVars, docVars>>
    /\ UNCHANGED cancelled

\* the embedding provider raises; ina_process_message has no handler
get_embeddings_raises ==
    /\ pc = "pm_embed"
    /\ pm' = [pm EXCEPT !.result = "raised"]
    /\ pc' = "except"
    /\ UNCHANGED <<req, nreq, ctx, stage, pipeline, replies>>
    /\ UNCHANGED <<storeVars, chunkVars, searchVars, compVars, callVars, embedVars, docVars>>
    /\ UNCHANGED cancelled

\* ina_save_embeddings inserts the rows; ina_process_message returns
ina_save_embeddings ==
    /\ pc = "pm_store"
    /\ ina_message_embeddings' = insert(ina_message_embeddings,
                                       EmbeddingRows(pm.message_id, pm.chunks, pm.vectors))
    /\ pm' = [pm EXCEPT !.result = "returned"]
    /\ pc' = "context"
    /\ UNCHANGED <<ina_messages, now, req, nreq, ctx, stage, pipeline, replies>>
    /\ UNCHANGED <<chunkVars, searchVars, compVars, callVars, embedVars, docVars>>
    /\ UNCHANGED cancelled

\* the insert of the embedding rows raises: no row is stored
ina_save_embeddings_raises ==
    /\ pc = "pm_store"
    /\ pm' = [pm EXCEPT !.result = "raised"]
    /\ pc' = "except"
    /\ UNCHANGED <<req, nreq, ctx, stage, pipeline, replies>>
    /\ UNCHANGED <<storeVars, chunkVars, searchVars, compVars, callVars, embedVars, docVars>>
    /\ UNCHANGED cancelled

\* _get_conversation_context: the three reads of ina_get_conversation_context
ina_get_conversation_context ==
    /\ pc = "context"
    /\ cancelled = "no"
    /\ ctx' = [user_context |-> ina_get_user_context(req.user_id, ContextLimit),
               chat_context |-> ina_get_chat_context(req.chat_id, ContextLimit),
               file_context |-> ina_get_file_context(req.user_id)]
    /\ pc' = "kickoff"
    /\ pipeline' = "running"
    /\ UNCHANGED <<req, nreq, pm, stage, replies>>
    /\ UNCHANGED <<storeVars, chunkVars, searchVars, compVars, callVars, embedVars, docVars>>
    /\ UNCHANGED cancelled

\* one of the reads raises
ina_get_conversation_context_raises ==
    /\ pc = "context"
    /\ cancelled = "no"
    /\ pc' = "except"
    /\ UNCHANGED <<req, nreq, pm, ctx, stage, pipeline, replies>>
    /\ UNCHANGED <<storeVars, chunkVars, searchVars, compVars, callVars, embedVars, docVars>>
    /\ UNCHANGED cancelled

\* RunnableAny: any pending task may start while no task runs
RunnableAny(i) ==
    /\ stage[i] = "pending"
    /\ \A j \in Stages : stage[j] # "running"

\* the crew runs its tasks one at a time in the order of the tasks list:
\* task i starts when every task before it in the list is done
Runnable(i) ==
    /\ stage[i] = "pending"
    /\ \A j \in Stages : j < i => stage[j] = "done"

StartStage(i) ==
    /\ pc = "kickoff"
    /\ Runnable(i)
    /\ stage' = [stage EXCEPT ![i] = "running"]
    /\ UNCHANGED <<pc, req, nreq, pm, ctx, pipeline, replies>>
    /\ UNCHANGED <<storeVars, chunkVars, searchVars, compVars, callVars, embedVars, docVars>>
    /\ UNCHANGED cancelled

FinishStage(i) ==
    /\ pc = "kickoff"
    /\ stage[i] = "running"
    /\ stage' = [stage EXCEPT ![i] = "done"]
    /\ UNCHANGED <<pc, req, nreq, pm, ctx, pipeline, replies>>
    /\ UNCHANGED <<storeVars, chunkVars, searchVars, compVars, callVars, embedVars, docVars>>
    /\ UNCHANGED cancelled

\* FailStage with the error of the task swallowed: kickoff goes on
FailStageSwallowed(i) ==
    /\ pc = "kickoff"
    /\ stage[i] = "running"
    /\ stage' = [stage EXCEPT ![i] = "failed"]
    /\ UNCHANGED <<pc, req, nreq, pm, ctx, pipeline, replies>>
    /\ UNCHANGED <<storeVars, chunkVars, searchVars, compVars, callVars, embedVars, docVars>>
    /\ UNCHANGED cancelled

\* the running task raises: kickoff raises and the except clause is entered
FailStage(i) ==
    /\ pc = "kickoff"
    /\ stage[i] = "running"
    /\ stage' = [stage EXCEPT ![i] = "failed"]
    /\ pipeline' = "failed"
    /\ pc' = "except"
    /\ UNCHANGED <<req, nreq, pm, ctx, replies>>
    /\ UNCHANGED <<storeVars, chunkVars, searchVars, compVars, callVars, embedVars, docVars>>
    /\ UNCHANGED cancelled

\* kickoff_returns as soon as the first task is done and no task runs
KickoffReturnsEarly ==
    /\ pc = "kickoff"
    /\ stage[0] = "done"
    /\ \A i \in Stages : stage[i] # "running"
    /\ pipeline' = "done"
    /\ pc' = "reply"
    /\ UNCHANGED <<req, nreq, pm, ctx, stage, replies>>
    /\ UNCHANGED <<storeVars, chunkVars, searchVars, compVars, callVars, embedVars, docVars>>
    /\ UNCHANGED cancelled

\* kickoff returns after the last task
kickoff_returns ==
    /\ pc = "kickoff"
    /\ \A i \in Stages : stage[i] = "done"
    /\ pipeline' = "done"
    /\ pc' = "reply"
    /\ UNCHANGED <<req, nreq, pm, ctx, stage, replies>>
    /\ UNCHANGED <<storeVars, chunkVars, searchVars, compVars, callVars, embedVars, docVars>>
    /\ UNCHANGED cancelled

\* message.reply_text(final_response, parse_mode='HTML')
reply_text_final ==
    /\ pc = "reply"
    /\ cancelled = "no"
    /\ replies' = Append(replies, "final")
    /\ pc' = "end"
    /\ UNCHANGED <<req, nreq, pm, ctx, stage, pipeline>>
    /\ UNCHANGED <<storeVars, chunkVars, searchVars, compVars, callVars, embedVars, docVars>>
    /\ UNCHANGED cancelled

\* reply_text raises inside the try block
reply_text_final_raises ==
    /\ pc = "reply"
    /\ cancelled = "no"
    /\ pc' = "except"
    /\ UNCHANGED <<req, nreq, pm, ctx, stage, pipeline, replies>>
    /\ UNCHANGED <<storeVars, chunkVars, searchVars, compVars, callVars, embedVars, docVars>>
    /\ UNCHANGED cancelled

\* reply_text_apology without the reply: the except clause only logs
ExceptSilent ==
    /\ pc = "except"
    /\ cancelled = "no"
    /\ pc' = "end"
    /\ UNCHANGED <<req, nreq, pm, ctx, stage, pipeline, replies>>
    /\ UNCHANGED <<storeVars, chunkVars, searchVars, compVars, callVars, embedVars, docVars>>
    /\ UNCHANGED cancelled

\* the except clause: log, then reply with the apology
reply_text_apology ==
    /\ pc = "except"
    /\ cancelled = "no"
    /\ replies' = Append(replies, "apology")
    /\ pc' = "end"
    /\ UNCHANGED <<req, nreq, pm, ctx, stage, pipeline>>
    /\ UNCHANGED <<storeVars, chunkVars, searchVars, compVars, callVars, embedVars, docVars>>
    /\ UNCHANGED cancelled

\* reply_text raises inside the except clause: handle_message raises
reply_text_apology_raises ==
    /\ pc = "except"
    /\ cancelled = "no"
    /\ pc' = "raised"
    /\ UNCHANGED <<req, nreq, pm, ctx, stage, pipeline, replies>>
    /\ UNCHANGED <<storeVars, chunkVars, searchVars, compVars, callVars, embedVars, docVars>>
    /\ UNCHANGED cancelled

\* the positions at which the handler awaits asyncio.to_thread:
\* _process_message and _get_conversation_context
ThreadPcs == {"pm_save", "pm_embed", "pm_store", "context"}

\* task.cancel() while the handler awaits a to_thread call: CancelledError
\* is thrown into the handler and, not being an Exception, passes the
\* except clause by; the thread of asyncio.to_thread goes on
cancel_in_to_thread ==
    /\ pc \in ThreadPcs
    /\ cancelled = "no"
    /\ cancelled' = "delivered"
    /\ UNCHANGED <<pc, req, nreq, pm, ctx, stage, pipeline, replies>>
    /\ UNCHANGED <<storeVars, chunkVars, searchVars, compVars, callVars, embedVars, docVars>>

\* the abandoned thread has ended; its result is dropped
to_thread_abandoned ==
    /\ pc \in {"context", "except"}
    /\ cancelled = "delivered"
    /\ pc' = "cancelled"
    /\ UNCHANGED <<req, nreq, pm, ctx, stage, pipeline, replies, cancelled>>
    /\ UNCHANGED <<storeVars, chunkVars, searchVars, compVars, callVars, embedVars, docVars>>

\* a cancellation asked for while crew.kickoff() runs: kickoff is a plain
\* call that keeps the event loop, the request waits for the next await
cancel_in_kickoff ==
    /\ pc = "kickoff"
    /\ cancelled = "no"
    /\ cancelled' = "requested"
    /\ UNCHANGED <<pc, req, nreq, pm, ctx, stage, pipeline, replies>>
    /\ UNCHANGED <<storeVars, chunkVars, searchVars, compVars, callVars, embedVars, docVars>>

\* CancelledError at the await of reply_text, asked for during the await
\* or before it: the reply may or may not have gone out
CancelledError ==
    /\ pc \in {"reply", "except"}
    /\ cancelled \in {"no", "requested"}
    /\ cancelled' = "delivered"
    /\ pc' = "cancelled"
    /\ \/ replies' = replies
       \/ replies' = Append(replies, IF pc = "reply" THEN "final" ELSE "apology")
    /\ UNCHANGED <<req, nreq, pm, ctx, stage, pipeline>>
    /\ UNCHANGED <<storeVars, chunkVars, searchVars, compVars, callVars, embedVars, docVars>>

\* the application hands the next update to handle_message
NextUpdate ==
    /\ pc \in {"end", "raised", "cancelled"}
    /\ nreq + 1 < MaxRequests
    /\ nreq' = nreq + 1
    /\ pc' = "idle"
    /\ req' = NoReq /\ pm' = NoPm /\ ctx' = NoCtx
    /\ stage' = AllPending /\ pipeline' = "none" /\ replies' = <<>>
    /\ UNCHANGED <<storeVars, chunkVars, searchVars, compVars, callVars, embedVars, docVars>>
    /\ cancelled' = "no"

Next ==
    \/ handle_message_no_trigger
    \/ handle_message
    \/ ina_save_message
    \/ ina_save_message_raises
    \/ get_embeddings
    \/ get_embeddings_raises
    \/ ina_save_embeddings
    \/ ina_save_embeddings_raises
    \/ ina_get_conversation_context
    \/ ina_get_conversation_context_raises
    \/ \E i \in Stages : StartStage(i)
    \/ \E i \in Stages : FinishStage(i)
    \/ \E i \in Stages : FailStage(i)
    \/ kickoff_returns
    \/ reply_text_final
    \/ reply_text_final_raises
    \/ reply_text_apology
    \/ reply_text_apology_raises
    \/ cancel_in_to_thread
    \/ to_thread_abandoned
    \/ cancel_in_kickoff
    \/ CancelledError
    \/ NextUpdate

Spec == FlowInit /\ [][Next]_vars

\* Spec with every call of the crew returning or raising: the crew starts
\* the next task, a running task ends, and kickoff returns after the last
SpecFair ==
    /\ Spec
    /\ WF_vars(\E i \in Stages : StartStage(i))
    /\ WF_vars(\E i \in Stages : FinishStage(i) \/ FailStage(i))
    /\ WF_vars(kickoff_returns)

(***************************************************************************)
(* VectorStore: its methods as calls on drawn arguments                    *)
(***************************************************************************)
\* file_type of a stored message; "none" is a message without a file
FileTypes == {"none", "txt"}

\* the lengths of the lists handed to ina_save_embeddings
ListLengths == {0, 1, 2}

\* the limits the context getters are called with
CallLimits == {1, ContextLimit}

\* a list of n chunk texts, each different from the others
ChunksOfLen(n) == [k \in 1..n |-> <<"c", k>>]

\* a list of n vectors, neighbours different from each other
VectorsOfLen(n) == [k \in 1..n |-> IF k % 2 = 1 THEN <<1, 0, 0>> ELSE <<0, 1>>]

\* the arguments ina_search_similar is called with
SearchCallArgs ==
    [query : {<<1, 0, 0>>}, limit : {MaxLimit}, threshold : {0},
     user_id : OptInts(Users), time_window : {None}]

ReadOps == {"ina_search_similar", "ina_get_user_context", "ina_get_chat_context",
            "ina_get_file_context"}
StoreOps == {"ina_save_message", "ina_save_embeddings"} \cup ReadOps

Returned(value) == [outcome |-> "returned", value |-> value]

StoreInit ==
    /\ ChunkOff /\ SearchOff /\ FlowOff /\ CompOff /\ StoreEmpty /\ EmbedOff /\ DocOff
    /\ vs_op = "none" /\ vs_args = NoCallArgs /\ vs_ret = NoRet
    /\ vs_embedded = {}

ina_save_message_call ==
    /\ Len(ina_messages) < MaxStoreRows
    /\ \E u \in Users, f \in FileTypes :
          /\ ina_messages' = insert(ina_messages, <<NewMessage(u, u, <<"c">>, f)>>)
          /\ vs_args' = [NoCallArgs EXCEPT !.id = u]
    /\ now' = now + 1
    /\ vs_op' = "ina_save_message"
    /\ vs_ret' = Returned(<<Len(ina_messages) + 1>>)
    /\ UNCHANGED <<ina_message_embeddings, vs_embedded>>
    /\ UNCHANGED <<chunkVars, searchVars, flowVars, compVars, embedVars, docVars>>

\* ina_save_embeddings for the message saved last, as ina_process_message
\* and ina_process_file call it, with nc chunks and nv vectors
ina_save_embeddings_call ==
    /\ ina_messages # <<>>
    /\ Len(ina_messages) \notin vs_embedded
    /\ \E nc \in ListLengths, nv \in ListLengths :
          /\ ina_message_embeddings' =
                 insert(ina_message_embeddings,
                        EmbeddingRows(Len(ina_messages), ChunksOfLen(nc), VectorsOfLen(nv)))
          /\ vs_args' = [id |-> Len(ina_messages), chunks |-> ChunksOfLen(nc),
                         embeddings |-> VectorsOfLen(nv)]
    /\ vs_embedded' = vs_embedded \cup {Len(ina_messages)}
    /\ vs_op' = "ina_save_embeddings"
    /\ vs_ret' = Returned(<<>>)
    /\ UNCHANGED <<ina_messages, now>>
    /\ UNCHANGED <<chunkVars, searchVars, flowVars, compVars, embedVars, docVars>>

\* ina_search_similar as one call: the query, then the loop, sort and
\* slice; the rows are taken in the order of the table (SpecSearch draws the
\* other orders the storage layer may answer in)
ina_search_similar_call ==
    /\ \E args \in SearchCallArgs :
          LET cs == Candidates(args)
              rows == [i \in 1..Len(cs) |-> SelectRow(cs[i])]
          IN  vs_ret' =
                IF \A i \in 1..Len(rows) : HasEmbedding(rows[i])
                THEN Returned(Truncate(SortBySimilarity(
                         FilterRows(rows, args.query, args.threshold)), args.limit))
                ELSE [outcome |-> "raised", value |-> <<"KeyError">>]
    /\ vs_op' = "ina_search_similar"
    /\ vs_args' = NoCallArgs
    /\ UNCHANGED <<storeVars, vs_embedded>>
    /\ UNCHANGED <<chunkVars, searchVars, flowVars, compVars, embedVars, docVars>>

ina_get_user_context_call ==
    /\ \E u \in Users, limit \in CallLimits :
          /\ vs_ret' = Returned(ina_get_user_context(u, limit))
          /\ vs_args' = [NoCallArgs EXCEPT !.id = u]
    /\ vs_op' = "ina_get_user_context"
    /\ UNCHANGED <<storeVars, vs_embedded>>
    /\ UNCHANGED <<chunkVars, searchVars, flowVars, compVars, embedVars, docVars>>

ina_get_chat_context_call ==
    /\ \E c \in Users, limit \in CallLimits :
          /\ vs_ret' = Returned(ina_get_chat_context(c, limit))
          /\ vs_args' = [NoCallArgs EXCEPT !.id = c]
    /\ vs_op' = "ina_get_chat_context"
    /\ UNCHANGED <<storeVars, vs_embedded>>
    /\ UNCHANGED <<chunkVars, searchVars, flowVars, compVars, embedVars, docVars>>

ina_get_file_context_call ==
    /\ \E u \in Users :
          /\ vs_ret' = Returned(ina_get_file_context(u))
          /\ vs_args' = [NoCallArgs EXCEPT !.id = u]
    /\ vs_op' = "ina_get_file_context"
    /\ UNCHANGED <<storeVars, vs_embedded>>
    /\ UNCHANGED <<chunkVars, searchVars, flowVars, compVars, embedVars, docVars>>

\* execute() raises in one of the methods: the except clause logs and raises
\* again, nothing is stored
execute_raises ==
    /\ \E op \in StoreOps : vs_op' = op
    /\ vs_args' = NoCallArgs
    /\ vs_ret' = [outcome |-> "raised", value |-> <<"APIError">>]
    /\ UNCHANGED <<storeVars, vs_embedded>>
    /\ UNCHANGED <<chunkVars, searchVars, flowVars, compVars, embedVars, docVars>>

StoreNext ==
    \/ ina_save_message_call
    \/ ina_save_embeddings_call
    \/ ina_search_similar_call
    \/ ina_get_user_context_call
    \/ ina_get_chat_context_call
    \/ ina_get_file_context_call
    \/ execute_raises

SpecStore == StoreInit /\ [][StoreNext]_vars

(***************************************************************************)
(* FileHandler.ina_get_conversation_context on drawn stores                *)
(***************************************************************************)
\* a store of n messages, some with a file, and no embedding rows read here
HistoryOf(n, users, files) ==
    /\ ina_messages = [i \in 1..n |->
                         [id |-> i, user_id |-> users[i], chat_id |-> users[i],
                          text |-> <<"c">>, file |-> files[i], created_at |-> i - 1]]
    /\ ina_message_embeddings = <<>>
    /\ now = n

ContextInit ==
    /\ ChunkOff /\ SearchOff /\ FlowOff /\ CompOff /\ EmbedOff /\ DocOff
    /\ \E n \in 0..MaxHistory :
         \E users \in [1..n -> Users], files \in [1..n -> FileTypes] :
            HistoryOf(n, users, files)
    /\ vs_op = "none" /\ vs_args = NoCallArgs /\ vs_ret = NoRet
    /\ vs_embedded = {}

\* ina_get_conversation_context(user_id, chat_id) with the default limit
ina_get_conversation_context_call ==
    /\ vs_op = "none"
    /\ \E u \in Users, c \in Users :
          /\ vs_ret' = Returned(
                 [user_context |-> ina_get_user_context(u, ContextLimit),
                  chat_context |-> ina_get_chat_context(c, ContextLimit),
                  file_context |-> ina_get_file_context(u)])
          /\ vs_args' = [NoCallArgs EXCEPT !.id = u]
    /\ vs_op' = "ina_get_conversation_context"
    /\ UNCHANGED <<storeVars, vs_embedded>>
    /\ UNCHANGED <<chunkVars, searchVars, flowVars, compVars, embedVars, docVars>>

\* one of the three reads raises
ina_get_conversation_context_call_raises ==
    /\ vs_op = "none"
    /\ vs_op' = "ina_get_conversation_context"
    /\ vs_args' = NoCallArgs
    /\ vs_ret' = [outcome |-> "raised", value |-> <<"APIError">>]
    /\ UNCHANGED <<storeVars, vs_embedded>>
    /\ UNCHANGED <<chunkVars, searchVars, flowVars, compVars, embedVars, docVars>>

ContextNext ==
    \/ ina_get_conversation_context_call
    \/ ina_get_conversation_context_call_raises

SpecContext == ContextInit /\ [][ContextNext]_vars

(***************************************************************************)
(* EmbeddingService.get_embeddings                                         *)
(***************************************************************************)
\* the texts handed to get_embeddings
EmbedTexts == {"a", "b"}

\* the provider of the model: one vector per input, a function of the text
ProviderEmbedding(t) == IF t = "a" THEN <<1, 0, 0>> ELSE <<0, 1>>

\* the kinds of error client.embeddings.create raises
ErrorKinds == {"rate_limited", "invalid_input", "transport_failure"}

Min(a, b) == IF a < b THEN a ELSE b

\* Batch with the slice one text short
BatchShort(texts, i) == SubSeq(texts, i + 1, Min(i + batch_size - 1, Len(texts)))

\* Batch with the slice one text long
BatchLong(texts, i) == SubSeq(texts, i + 1, Min(i + batch_size + 1, Len(texts)))

\* texts[i:i + batch_size]
Batch(texts, i) == SubSeq(texts, i + 1, Min(i + batch_size, Len(texts)))

EmbedInit ==
    /\ ChunkOff /\ SearchOff /\ StoreEmpty /\ FlowOff /\ CompOff /\ CallOff /\ DocOff
    /\ e_pc = "ready"
    /\ \E n \in 0..MaxTexts : e_texts \in [1..n -> EmbedTexts]
    /\ e_i = 0 /\ e_all = <<>> /\ e_calls = <<>> /\ e_ret = NoEmbedRet

\* "if not texts: return []"
get_embeddings_empty ==
    /\ e_pc = "ready"
    /\ e_texts = <<>>
    /\ e_pc' = "done"
    /\ e_ret' = [NoEmbedRet EXCEPT !.outcome = "returned"]
    /\ UNCHANGED <<e_texts, e_i, e_all, e_calls>>
    /\ UNCHANGED <<chunkVars, storeVars, searchVars, flowVars, compVars, callVars, docVars>>

\* a non-empty list enters the loop over range(0, len(texts), batch_size)
get_embeddings_enter ==
    /\ e_pc = "ready"
    /\ e_texts # <<>>
    /\ e_pc' = "loop"
    /\ UNCHANGED <<e_texts, e_i, e_all, e_calls, e_ret>>
    /\ UNCHANGED <<chunkVars, storeVars, searchVars, flowVars, compVars, callVars, docVars>>

\* one iteration: create() answers the batch, its vectors extend
\* all_embeddings
embeddings_create ==
    /\ e_pc = "loop"
    /\ e_i < Len(e_texts)
    /\ LET batch == Batch(e_texts, e_i)
       IN  e_all' = e_all \o [k \in 1..Len(batch) |-> ProviderEmbedding(batch[k])]
    /\ e_calls' = Append(e_calls, [start |-> e_i, input |-> Batch(e_texts, e_i)])
    /\ e_i' = e_i + batch_size
    /\ UNCHANGED <<e_pc, e_texts, e_ret>>
    /\ UNCHANGED <<chunkVars, storeVars, searchVars, flowVars, compVars, callVars, docVars>>

\* one iteration: create() raises; get_embeddings has no handler, the
\* error leaves the call as the client raised it
embeddings_create_raises ==
    /\ e_pc = "loop"
    /\ e_i < Len(e_texts)
    /\ \E kind \in ErrorKinds :
          e_ret' = [outcome |-> "raised", value |-> <<>>, error |-> [kind |-> kind]]
    /\ e_calls' = Append(e_calls, [start |-> e_i, input |-> Batch(e_texts, e_i)])
    /\ e_pc' = "done"
    /\ UNCHANGED <<e_texts, e_i, e_all>>
    /\ UNCHANGED <<chunkVars, storeVars, searchVars, flowVars, compVars, callVars, docVars>>

\* the loop has ended: return all_embeddings
get_embeddings_return ==
    /\ e_pc = "loop"
    /\ e_i >= Len(e_texts)
    /\ e_pc' = "done"
    /\ e_ret' = [NoEmbedRet EXCEPT !.outcome = "returned", !.value = e_all]
    /\ UNCHANGED <<e_texts, e_i, e_all, e_calls>>
    /\ UNCHANGED <<chunkVars, storeVars, searchVars, flowVars, compVars, callVars, docVars>>

EmbedNext ==
    \/ get_embeddings_empty
    \/ get_embeddings_enter
    \/ embeddings_create
    \/ embeddings_create_raises
    \/ get_embeddings_return

SpecEmbed == EmbedInit /\ [][EmbedNext]_vars

(***************************************************************************)
(* chunk_text as a call on drawn inputs                                    *)
(***************************************************************************)
ChunkInit ==
    /\ SearchOff /\ StoreEmpty /\ FlowOff /\ CompOff /\ CallOff /\ EmbedOff /\ DocOff
    /\ c_pc = "ready"
    /\ c_text \in Texts
    /\ c_max \in 1..MaxChunkBound
    /\ c_overlap \in 0..(c_max - 1)
    /\ c_runs = <<>>
    /\ c_chunks = <<>>

chunk_text_call ==
    /\ c_pc = "ready"
    /\ c_runs' = chunk_text_runs(c_text, c_max, c_overlap)
    /\ c_chunks' = chunk_text(c_text, c_max, c_overlap)
    /\ c_pc' = "done"
    /\ UNCHANGED <<c_text, c_max, c_overlap>>
    /\ UNCHANGED <<storeVars, searchVars, flowVars, compVars, callVars, embedVars, docVars>>

ChunkNext == chunk_text_call

SpecChunk == ChunkInit /\ [][ChunkNext]_vars

(***************************************************************************)
(* VectorCompressor                                                        *)
(***************************************************************************)
\* the components of the vectors handed to the compressor
Components == {0, 1}

\* the vectors of dimension d
VectorsOfDim(d) == [1..d -> Components]

\* a float of the output, held as <<numerator, denominator>>
Ratio(c) == <<c, 1>>

\* np.zeros(n), as a list
Zeros(n) == [k \in 1..n |-> Ratio(0)]

RECURSIVE SumFrom(_, _, _)
SumFrom(vector, a, b) ==
    IF a > b THEN 0 ELSE vector[a] + SumFrom(vector, a + 1, b)

\* Mean with the sum of the window for its average
MeanIsSum(vector, a, b) == <<SumFrom(vector, a, b), 1>>

\* np.mean(vector[a-1:b])
Mean(vector, a, b) == <<SumFrom(vector, a, b), b - a + 1>>

\* Fit without the slice pooled[:target_dimensions]
FitNoSlice(pooled, target) ==
    IF Len(pooled) < target THEN pooled \o Zeros(target - Len(pooled))
    ELSE pooled

\* "Ensure we have exactly target_dimensions": pad with zeros or cut
Fit(pooled, target) ==
    IF Len(pooled) < target THEN pooled \o Zeros(target - Len(pooled))
    ELSE IF Len(pooled) > target THEN SubSeq(pooled, 1, target)
    ELSE pooled

\* the body of "for vector in vectors_array", original_dim > target
Pool(vector, original_dim, target) ==
    LET window_size == original_dim \div target
        remainder == original_dim % target
        rows == (original_dim - remainder) \div window_size
        pooled == [k \in 1..rows |->
                     Mean(vector, (k - 1) * window_size + 1, k * window_size)]
        withLast == IF remainder # 0
                    THEN Append(pooled, Mean(vector, original_dim - remainder + 1,
                                             original_dim))
                    ELSE pooled
    IN  Fit(withLast, target)

\* VectorCompressor.compress; original_dim is vectors_array.shape[1]
compress(vectors, target) ==
    IF vectors = <<>> THEN <<>>
    ELSE LET original_dim == Len(vectors[1])
         IN  IF original_dim <= target
             THEN [i \in 1..Len(vectors) |->
                     [k \in 1..original_dim |-> Ratio(vectors[i][k])]
                       \o Zeros(target - original_dim)]
             ELSE [i \in 1..Len(vectors) |-> Pool(vectors[i], original_dim, target)]

\* VectorCompressor.compress_single
compress_single(vector, target) ==
    IF vector = <<>> THEN <<>>
    ELSE LET compressed == compress(<<vector>>, target)
         IN  IF compressed # <<>> THEN compressed[1] ELSE <<>>

CompInit ==
    /\ ChunkOff /\ SearchOff /\ StoreEmpty /\ FlowOff /\ CallOff /\ EmbedOff /\ DocOff
    /\ v_pc = "ready"
    /\ v_op = "none"
    /\ v_target \in 1..MaxTargetDim
    /\ \E d \in 0..MaxSourceDim, n \in 0..MaxVectors :
          v_vectors \in [1..n -> VectorsOfDim(d)]
    /\ v_out = <<>>

compress_call ==
    /\ v_pc = "ready"
    /\ v_op' = "compress"
    /\ v_out' = compress(v_vectors, v_target)
    /\ v_pc' = "done"
    /\ UNCHANGED <<v_target, v_vectors>>
    /\ UNCHANGED <<storeVars, chunkVars, searchVars, flowVars, callVars, embedVars, docVars>>

\* compress_single on the one vector of the list
compress_single_call ==
    /\ v_pc = "ready"
    /\ Len(v_vectors) = 1
    /\ v_op' = "compress_single"
    /\ v_out' = compress_single(v_vectors[1], v_target)
    /\ v_pc' = "done"
    /\ UNCHANGED <<v_target, v_vectors>>
    /\ UNCHANGED <<storeVars, chunkVars, searchVars, flowVars, callVars, embedVars, docVars>>

CompNext == compress_call \/ compress_single_call

SpecCompress == CompInit /\ [][CompNext]_vars

(***************************************************************************)
(* Properties of the crew of handle_message and of ina_process_message     *)
(***************************************************************************)
\* C1: a task that is no longer pending (running, done or failed) has every
\* task it declares as a dependency done; so a task leaves pending only when
\* its dependencies are done.
C1_DependenciesDone ==
    \A i \in Stages :
        stage[i] # "pending" => \A d \in dependencies(i) : stage[d] = "done"

\* the last task runs, after the three it depends on
C1_Witness ==
    /\ pc = "kickoff"
    /\ stage[3] = "running"
    /\ \A d \in dependencies(3) : stage[d] = "done"

AnyFailed == \E i \in Stages : stage[i] = "failed"

\* C2: once a task has failed the pipeline is failed, and a task that is
\* pending then stays pending.
C2_FailureHalts ==
    /\ [](AnyFailed => pipeline = "failed")
    /\ [][AnyFailed => \A j \in Stages : stage[j] = "pending" => stage'[j] = "pending"]_vars

\* execute failed, review and respond never ran, the handler has ended
C2_Witness ==
    /\ pc = "end"
    /\ stage[0] = "done" /\ stage[1] = "failed"
    /\ stage[2] = "pending" /\ stage[3] = "pending"
    /\ pipeline = "failed"

\* C3: after ina_process_message has returned or raised, every stored
\* message whose text has chunks has embedding rows.
C3_NoOrphanMessage ==
    pm.result # "none" =>
        \A k \in 1..Len(ina_messages) :
            chunk_text(ina_messages[k].text, DefaultMaxChunkSize, DefaultOverlap) # <<>>
            => \E j \in 1..Len(ina_message_embeddings) : ina_message_embeddings[j].message_id = ina_messages[k].id

\* C13: every embedding row in the store carries a vector whose length is
\* the store's configured dimension, whatever width the provider answered
\* with.
C13_StoredWidth ==
    \A j \in 1..Len(ina_message_embeddings) :
        Len(ina_message_embeddings[j].embedding) = SUPABASE_EMBEDDING_DIMENSION

AllDone == \A i \in Stages : stage[i] = "done"

\* handle_message has returned or raised on an update that starts with the
\* trigger
HandledTriggered == pc \in {"end", "raised"} /\ Triggered(req.text)

\* C20 as stated: for every triggered update exactly one reply is sent, the
\* output of the last task if and only if all four tasks completed, and the
\* apology otherwise.
C20_ExactlyOneReply ==
    HandledTriggered =>
        /\ Len(replies) = 1
        /\ replies[1] = "final" <=> AllDone
        /\ ~AllDone => replies[1] = "apology"

\* C20 amended: at most one reply is ever sent for an update; when
\* handle_message returns on a triggered update exactly one was sent, the
\* output of the last task only if all four tasks completed and the apology
\* whenever they did not; when handle_message raises (the apology could not
\* be sent) none was sent.
C20_OneReplyWhenReturned ==
    /\ Len(replies) <= 1
    /\ (pc = "end" /\ Triggered(req.text)) =>
          /\ Len(replies) = 1
          /\ replies[1] \in {"final", "apology"}
          /\ replies[1] = "final" => AllDone
          /\ ~AllDone => replies[1] = "apology"
    /\ pc = "raised" => replies = <<>>

\* all four tasks completed, sending the final response raised, and the
\* apology was sent
C20_Witness ==
    /\ pc = "end" /\ AllDone /\ pipeline = "done"
    /\ replies = <<"apology">>

(***************************************************************************)
(* Properties of ina_search_similar                                        *)
(***************************************************************************)
\* the search ended and the storage layer had answered its query
SearchEnded == s_pc = "done" /\ s_error # "APIError"

InResults(e) ==
    \E k \in 1..Len(s_results) :
        s_results[k].chunk_text = e.chunk_text /\ s_results[k].message.id = e.message_id

\* C4: the search returns a list of at most limit rows, each with
\* similarity >= threshold, in non-increasing order of similarity, and no
\* row of the store that passes the filters and the threshold and is left
\* out has a greater similarity than a returned row.
C4_SearchRanked ==
    SearchEnded =>
        /\ s_outcome = "returned"
        /\ Len(s_results) <= s_args.limit
        /\ \A k \in 1..Len(s_results) :
               SimAtLeast(s_results[k].similarity, s_args.threshold)
        /\ \A k \in 1..(Len(s_results) - 1) :
               s_results[k].similarity >= s_results[k + 1].similarity
        /\ \A i \in 1..Len(ina_message_embeddings) :
               LET e == ina_message_embeddings[i]
                   sim == _calculate_similarity(s_args.query, e.embedding)
               IN  (/\ QueryKeeps(e, s_args)
                    /\ SimAtLeast(sim, s_args.threshold)
                    /\ ~InResults(e))
                   => \A k \in 1..Len(s_results) : sim <= s_results[k].similarity

\* the vector stored for a row the storage layer returned
StoredVector(row) ==
    (CHOOSE e \in {ina_message_embeddings[i] : i \in 1..Len(ina_message_embeddings)} : e.id = row.id).embedding

\* two of the candidate rows pass the threshold with the same similarity and
\* were created at different times
TiedRows ==
    \E i, j \in 1..Len(s_rows) :
        /\ s_rows[i].ina_messages.created_at # s_rows[j].ina_messages.created_at
        /\ _calculate_similarity(s_args.query, StoredVector(s_rows[i]))
             = _calculate_similarity(s_args.query, StoredVector(s_rows[j]))
        /\ SimAtLeast(_calculate_similarity(s_args.query, StoredVector(s_rows[i])),
                      s_args.threshold)

\* C5: a search whose candidates hold two rows of equal similarity returns
\* a list in which, of two rows with equal similarity, the one created
\* later comes first, whatever order the storage layer answered in.
C5_TiesByRecency ==
    (SearchEnded /\ TiedRows /\ s_args.limit >= 2) =>
        /\ s_outcome = "returned"
        /\ Len(s_results) >= 2
        /\ \A j, k \in 1..Len(s_results) :
               (j < k /\ s_results[j].similarity = s_results[k].similarity)
               => s_results[j].created_at >= s_results[k].created_at

\* C6: when a user id is passed, every row the storage layer hands to the
\* search, and every row the search returns, belongs to a message of that
\* user; when a time window is passed, every such row's message was created
\* at or after now - time_window.
C6_FiltersApplied ==
    s_pc \in {"loop", "done"} =>
        /\ s_args.user_id.given =>
               /\ \A i \in 1..Len(s_rows) :
                      s_rows[i].ina_messages.user_id = s_args.user_id.val
               /\ \A k \in 1..Len(s_results) :
                      s_results[k].message.user_id = s_args.user_id.val
        /\ s_args.time_window.given =>
               /\ \A i \in 1..Len(s_rows) :
                      s_rows[i].ina_messages.created_at >= now - s_args.time_window.val
               /\ \A k \in 1..Len(s_results) :
                      s_results[k].created_at >= now - s_args.time_window.val

\* C7: on a store holding exactly the chunk vectors [1,0,0] and [0,1,0],
\* the search for [1,0,0] with limit 1 and threshold 0.9 completes without
\* error and returns exactly the row of [1,0,0].
C7_ScenarioReturnsFirst ==
    (/\ SearchEnded
     /\ Len(ina_message_embeddings) = 2
     /\ {ina_message_embeddings[i].embedding : i \in 1..2} = {<<1, 0, 0>>, <<0, 1, 0>>}
     /\ s_args.query = <<1, 0, 0>> /\ s_args.limit = 1 /\ s_args.threshold = 90
     /\ ~s_args.user_id.given /\ ~s_args.time_window.given)
    => /\ s_outcome = "returned"
       /\ Len(s_results) = 1
       /\ \E i \in 1..2 :
              /\ ina_message_embeddings[i].embedding = <<1, 0, 0>>
              /\ s_results[1].chunk_text = ina_message_embeddings[i].chunk_text

(***************************************************************************)
(* Properties of chunk_text                                                *)
(***************************************************************************)
RECURSIVE Flatten(_)
Flatten(ss) == IF ss = <<>> THEN <<>> ELSE Head(ss) \o Flatten(Tail(ss))

\* chunk k without the sentences it repeats from chunk k-1
NewPart(runs, k) ==
    IF k = 1 THEN runs[1]
    ELSE LET prev == runs[k - 1]
         IN  SelectSeq(runs[k], LAMBDA i : i > prev[Len(prev)])

\* C8: every chunk is the single-space join of a contiguous run of whole
\* sentences of the normalized text, and the chunks without the sentences
\* each repeats from its predecessor, joined with single spaces, are the
\* normalized text again (so every sentence occurs, in the original order).
C8_ChunksRebuildText ==
    c_pc = "done" =>
        LET norm == _normalize_text(c_text)
            sents == _split_into_sentences(norm)
            m == Len(c_chunks)
            rest == Flatten([k \in 1..m |-> NewPart(c_runs, k)])
        IN  /\ Len(c_runs) = m
            /\ \A k \in 1..m :
                   LET r == c_runs[k]
                   IN  /\ r # <<>>
                       /\ r[1] >= 1 /\ r[Len(r)] <= Len(sents)
                       /\ \A j \in 1..(Len(r) - 1) : r[j + 1] = r[j] + 1
                       /\ c_chunks[k] = JoinSp(SubSeq(sents, r[1], r[Len(r)]))
            /\ rest = [i \in 1..Len(sents) |-> i]
            /\ JoinSp(Pick(sents, rest)) = norm

\* a call that returned two chunks, the second starting with a sentence of
\* the first
C8_Witness ==
    /\ c_pc = "done"
    /\ Len(c_runs) >= 2
    /\ c_runs[2][1] <= c_runs[1][Len(c_runs[1])]
    /\ Len(c_runs[2]) >= 2

\* C9: every returned chunk string has at most max_chunk_size characters,
\* unless the chunk is one single sentence.
C9_ChunkLenBounded ==
    c_pc = "done" =>
        \A k \in 1..Len(c_chunks) :
            Len(c_chunks[k]) <= c_max \/ Len(c_runs[k]) = 1

\* C10: a sentence longer than max_chunk_size shares its chunk with no
\* other sentence.
C10_LongSentenceAlone ==
    c_pc = "done" =>
        LET sents == _split_into_sentences(_normalize_text(c_text))
        IN  \A k \in 1..Len(c_runs) :
                \A j \in 1..Len(c_runs[k]) :
                    Len(sents[c_runs[k][j]]) > c_max => Len(c_runs[k]) = 1

\* C11: chunk_text of "A. B. C." with max_chunk_size 4 and overlap 2 returns
\* exactly the two chunks "A. B." and "B. C.".
C11_ScenarioChunks ==
    (c_pc = "done" /\ c_text = ScenarioText /\ c_max = 4 /\ c_overlap = 2) =>
        c_chunks = << <<"A", ".", " ", "B", ".">>, <<"B", ".", " ", "C", ".">> >>

\* the scenario call has returned, with the sentence "B." in both chunks
C11_Witness ==
    /\ c_pc = "done" /\ c_text = ScenarioText /\ c_max = 4 /\ c_overlap = 2
    /\ c_runs = << <<1, 2>>, <<2, 3>> >>

(***************************************************************************)
(* Properties of VectorCompressor                                          *)
(***************************************************************************)
\* C12: compress of a non-empty list of vectors of one dimension returns
\* one vector per input vector, each of exactly target_dimensions elements,
\* whether the dimension is below, equal to or above the target or is 0;
\* compress of the empty list returns the empty list; compress_single of the
\* empty vector returns the empty vector.
C12_TargetDimension ==
    v_pc = "done" =>
        /\ v_op = "compress" =>
              IF v_vectors = <<>> THEN v_out = <<>>
              ELSE /\ Len(v_out) = Len(v_vectors)
                   /\ \A i \in 1..Len(v_out) : Len(v_out[i]) = v_target
        /\ v_op = "compress_single" =>
              IF v_vectors[1] = <<>> THEN v_out = <<>>
              ELSE Len(v_out) = v_target

\* two vectors of dimension 5 pooled to 2 values: windows of 2 and a
\* remainder of 1
C12_Witness ==
    /\ v_pc = "done" /\ v_op = "compress"
    /\ Len(v_vectors) = 2 /\ Len(v_vectors[1]) = 5 /\ v_target = 2
    /\ Len(v_out[1]) = 2

(***************************************************************************)
(* Properties of VectorStore                                               *)
(***************************************************************************)
\* the rows stored for the message of the last ina_save_embeddings call
RowsOfCall ==
    SelectSeq(ina_message_embeddings, LAMBDA e : e.message_id = vs_args.id)

\* C14: after ina_save_embeddings(message_id, chunks, embeddings) has
\* returned, the rows stored for message_id are exactly len(chunks) rows,
\* row i with chunk_index i, chunk text chunks[i] and vector embeddings[i],
\* also when embeddings has another length than chunks.
C14_RowsMatchChunks ==
    (vs_op = "ina_save_embeddings" /\ vs_ret.outcome = "returned") =>
        /\ Len(RowsOfCall) = Len(vs_args.chunks)
        /\ \A i \in 1..Len(RowsOfCall) :
               /\ RowsOfCall[i].chunk_index = i - 1
               /\ RowsOfCall[i].chunk_text = vs_args.chunks[i]
               /\ RowsOfCall[i].embedding = vs_args.embeddings[i]

\* C18: in every step of a sequence of VectorStore calls, the message rows
\* and the embedding rows present before the step are present after it,
\* unchanged and at the same place, and a step of a read method leaves both
\* tables as they were.
C18_AppendOnly ==
    [][/\ Len(ina_messages') >= Len(ina_messages)
       /\ SubSeq(ina_messages', 1, Len(ina_messages)) = ina_messages
       /\ Len(ina_message_embeddings') >= Len(ina_message_embeddings)
       /\ SubSeq(ina_message_embeddings', 1, Len(ina_message_embeddings))
            = ina_message_embeddings
       /\ vs_op' \in ReadOps =>
            /\ ina_messages' = ina_messages
            /\ ina_message_embeddings' = ina_message_embeddings]_vars

\* two messages and an embedding row are stored and a read has returned
\* both messages
C18_Witness ==
    /\ Len(ina_messages) = 2 /\ Len(ina_message_embeddings) >= 1
    /\ vs_op \in ReadOps /\ vs_ret.outcome = "returned"
    /\ Len(vs_ret.value) = 2

\* C19: each list of the bundle ina_get_conversation_context returns (user
\* context, chat context, file context) has at most limit entries, however
\* many messages and files the store holds.
C19_ContextCapped ==
    (vs_op = "ina_get_conversation_context" /\ vs_ret.outcome = "returned") =>
        /\ Len(vs_ret.value.user_context) <= ContextLimit
        /\ Len(vs_ret.value.chat_context) <= ContextLimit
        /\ Len(vs_ret.value.file_context) <= ContextLimit

(***************************************************************************)
(* Properties of EmbeddingService.get_embeddings                           *)
(***************************************************************************)
\* C15: with a provider that answers one vector per text, a function of
\* the text, get_embeddings returns as many vectors as texts, the i-th
\* being the provider's vector for the i-th text, for lists shorter than,
\* as long as and longer than a batch.
C15_OrderPreserved ==
    (e_pc = "done" /\ e_ret.outcome = "returned") =>
        /\ Len(e_ret.value) = Len(e_texts)
        /\ \A i \in 1..Len(e_texts) : e_ret.value[i] = ProviderEmbedding(e_texts[i])

\* a list one text longer than a batch was embedded in two calls, the last
\* text different from the one before it
C15_Witness ==
    /\ e_pc = "done" /\ e_ret.outcome = "returned"
    /\ Len(e_texts) = batch_size + 1
    /\ e_texts[batch_size] # e_texts[batch_size + 1]
    /\ Len(e_calls) = 2
    /\ e_calls[1].start = 0 /\ e_calls[2].start = batch_size

\* the batch create() was called with last, counted from 0
LastBatch == e_calls[Len(e_calls)].start \div batch_size

\* C16: when create() fails on batch k, get_embeddings fails, returns no
\* vector of the batches before k, and the error it raises names k.
C16_FailureNamesBatch ==
    (e_pc = "done" /\ e_ret.outcome = "raised") =>
        /\ e_ret.value = <<>>
        /\ "batch" \in DOMAIN e_ret.error
        /\ e_ret.error.batch = LastBatch

\* the number of create() calls made for the batch that starts at i
CallsFor(i) == Cardinality({k \in 1..Len(e_calls) : e_calls[k].start = i})

\* C17: when get_embeddings ends with a rate-limit or transport error,
\* create() was called more than once for the failed batch; when it ends
\* with an invalid-input error, create() was called once for it.
C17_RetriesTransient ==
    (e_pc = "done" /\ e_ret.outcome = "raised") =>
        /\ e_ret.error.kind \in {"rate_limited", "transport_failure"}
              => CallsFor(e_calls[Len(e_calls)].start) >= 2
        /\ e_ret.error.kind = "invalid_input"
              => CallsFor(e_calls[Len(e_calls)].start) = 1

(***************************************************************************)
(* Properties of the overlap and of the chunk count of chunk_text          *)
(***************************************************************************)
\* the last n positions of run
Suffix(run, n) == SubSeq(run, Len(run) - n + 1, Len(run))

\* n is the length of the longest trailing run of prev whose sentence
\* lengths sum to at most overlap
LongestWindow(sents, prev, n, overlap) ==
    /\ SumLen(sents, Suffix(prev, n)) <= overlap
    /\ n < Len(prev) => SumLen(sents, Suffix(prev, n + 1)) > overlap

\* C24: the chunk after a closed chunk starts with the longest trailing run
\* of sentences of the closed chunk whose lengths sum to at most overlap, in
\* their order, followed by the sentence after the closed chunk; with
\* overlap 0 the two chunks share no sentence.
C24_OverlapWindow ==
    c_pc = "done" =>
        LET sents == _split_into_sentences(_normalize_text(c_text))
        IN  \A k \in 1..(Len(c_runs) - 1) :
              LET prev == c_runs[k]
                  nxt == c_runs[k + 1]
              IN  /\ \E n \in 0..Len(prev) :
                        /\ LongestWindow(sents, prev, n, c_overlap)
                        /\ Len(nxt) >= n + 1
                        /\ SubSeq(nxt, 1, n) = Suffix(prev, n)
                        /\ nxt[n + 1] = prev[Len(prev)] + 1
                  /\ c_overlap = 0 =>
                        \A a \in 1..Len(prev), b \in 1..Len(nxt) : prev[a] # nxt[b]

\* four sentences of one character, overlap 2: the second chunk starts
\* with the last two sentences of the first
C24_Witness ==
    /\ c_pc = "done" /\ c_overlap = 2
    /\ c_runs = << <<1, 2, 3>>, <<2, 3, 4>> >>

\* the sentence positions of chunk k
InChunk(k) == {c_runs[k][j] : j \in 1..Len(c_runs[k])}

\* C30: chunk_text, one pass of ChunkLoop over the sentence positions,
\* returns at most as many chunks as the text has sentences, and every
\* chunk after the first holds a sentence that no earlier chunk holds.
C30_ChunksAdvance ==
    c_pc = "done" =>
        /\ Len(c_chunks) <= Len(_split_into_sentences(_normalize_text(c_text)))
        /\ Len(c_runs) = Len(c_chunks)
        /\ \A k \in 2..Len(c_runs) :
               \E i \in InChunk(k) : \A j \in 1..(k - 1) : i \notin InChunk(j)

\* three chunks, the second and third each starting with a sentence of the
\* chunk before
C30_Witness ==
    /\ c_pc = "done"
    /\ Len(c_runs) = 3
    /\ c_runs[2][1] \in InChunk(1)
    /\ c_runs[3][1] \in InChunk(2)

(***************************************************************************)
(* Properties of the batches of get_embeddings                             *)
(***************************************************************************)
\* C25: a get_embeddings call on n texts that returns has called create()
\* ceil(n / batch_size) times, the k-th call with the k-th contiguous slice
\* of the texts, every slice but the last of exactly batch_size texts and
\* the last of at most batch_size; on no text it returns the empty list
\* and has not called create().
C25_BatchCalls ==
    (e_pc = "done" /\ e_ret.outcome = "returned") =>
        LET n == Len(e_texts)
            calls == (n + batch_size - 1) \div batch_size
        IN  /\ Len(e_calls) = calls
            /\ \A k \in 1..Len(e_calls) :
                   /\ e_calls[k].input =
                        SubSeq(e_texts, (k - 1) * batch_size + 1, Min(k * batch_size, n))
                   /\ Len(e_calls[k].input) <= batch_size
                   /\ k < calls => Len(e_calls[k].input) = batch_size
            /\ n = 0 => (e_calls = <<>> /\ e_ret.value = <<>>)

\* a call on batch_size + 1 texts: one full batch and a batch of one text
C25_Witness ==
    /\ e_pc = "done" /\ e_ret.outcome = "returned"
    /\ Len(e_calls) = 2
    /\ Len(e_calls[1].input) = batch_size
    /\ Len(e_calls[2].input) = 1

(***************************************************************************)
(* Properties of the pooling of VectorCompressor                           *)
(***************************************************************************)
\* the vectors of the dimension of vector that agree with it on its first
\* n elements
AgreeOnFirst(vector, n) ==
    {u \in VectorsOfDim(Len(vector)) : \A k \in 1..n : k <= Len(vector) => u[k] = vector[k]}

\* C26: compress of vectors of a dimension d above the target, with
\* w = d \div target: element k of every output vector (counted from 1) is
\* the average of the source elements (k-1)*w+1 .. k*w, and the d % target
\* trailing source elements have no influence: every vector that agrees on
\* the first target*w elements is compressed to the same output.
C26_WindowAverages ==
    (v_pc = "done" /\ v_op = "compress" /\ v_vectors # <<>>
        /\ Len(v_vectors[1]) > v_target) =>
        LET d == Len(v_vectors[1])
            w == d \div v_target
        IN  \A i \in 1..Len(v_vectors) :
               /\ \A k \in 1..v_target :
                     v_out[i][k] =
                       <<SumFrom(v_vectors[i], (k - 1) * w + 1, k * w), w>>
               /\ \A u \in AgreeOnFirst(v_vectors[i], v_target * w) :
                     compress(<<u>>, v_target) = <<v_out[i]>>

\* dimension 5 pooled to 2: windows of 2, the fifth element is 1 and the
\* output shows the first four only
C26_Witness ==
    /\ v_pc = "done" /\ v_op = "compress" /\ v_target = 2
    /\ v_vectors = << <<1, 0, 1, 1, 1>> >>
    /\ v_out = << << <<1, 2>>, <<2, 2>> >> >>

(***************************************************************************)
(* Properties of the order of the steps of handle_message                  *)
(***************************************************************************)
\* the message of the update is in the store under the id ina_save_message
\* returned
MessageSaved ==
    /\ pm.message_id \in 1..Len(ina_messages)
    /\ ina_messages[pm.message_id].text = req.text

\* one embedding row per chunk is stored for the message of the update
EmbeddingsSaved ==
    Len(SelectSeq(ina_message_embeddings, LAMBDA e : e.message_id = pm.message_id))
        = Len(pm.chunks)

Terminal == pipeline \in {"done", "failed"}

\* C21: when every call of the crew returns or raises, a pipeline that was
\* started reaches done or failed; it is done only with all four tasks
\* done and failed only with a task failed, a failed task makes it failed,
\* and a terminal state is kept until the next update is handled.
C21_ReachesTerminal ==
    /\ (pipeline = "running") ~> Terminal
    /\ [](pipeline = "done" => AllDone)
    /\ [](pipeline = "failed" <=> AnyFailed)
    /\ [](AllDone => pipeline \in {"running", "done"})
    /\ [][Terminal => (pipeline' = pipeline \/ pipeline' = "none")]_vars

\* the pipeline is done after its four tasks and the response was sent
C21_Witness ==
    /\ pc = "end" /\ pipeline = "done" /\ AllDone
    /\ replies = <<"final">>

(***************************************************************************)
(* Properties of the cancellation of a request                             *)
(***************************************************************************)
\* C22: once the cancellation of the request has been asked for, a task
\* that is pending stays pending.
C22_NoStartAfterCancel ==
    [][cancelled # "no" =>
          \A j \in Stages : stage[j] = "pending" => stage'[j] = "pending"]_vars

(***************************************************************************)
(* TelegramBot.handle_document, FileHandler.ina_process_file and           *)
(* ina_process_message, called twice at the same time                      *)
(***************************************************************************)
\* the users of the two calls
CallUsers == {1, 2}

\* document.file_name of the model
FileNames ==
    { <<"a", ".", "p", "d", "f">>,
      <<"a", ".", "d", "o", "c", "x">>,
      <<"a", ".", "t", "x", "t">>,
      <<"a", ".", "T", "X", "T">>,
      <<"a", ".", "d", "o", "c">>,
      <<"a">> }

\* the text a document holds or a message carries
DocTexts == { <<"a", ".">>, <<"b", ".">> }

\* str.lower() on the letters of the file names
LowerChar(c) == IF c = "T" THEN "t" ELSE IF c = "X" THEN "x" ELSE c
LowerName(n) == [k \in 1..Len(n) |-> LowerChar(n[k])]
EndsWith(t, suffix) ==
    Len(t) >= Len(suffix) /\ SubSeq(t, Len(t) - Len(suffix) + 1, Len(t)) = suffix

\* _get_file_type with the text after the dot taken for the type
FileTypeAnySuffix(file_name) ==
    LET lower_name == LowerName(file_name)
    IN  IF EndsWith(lower_name, <<".", "p", "d", "f">>) THEN "pdf"
        ELSE IF EndsWith(lower_name, <<".", "d", "o", "c", "x">>) THEN "docx"
        ELSE IF EndsWith(lower_name, <<".", "t", "x", "t">>) THEN "txt"
        ELSE IF EndsWith(lower_name, <<".", "d", "o", "c">>) THEN "doc"
        ELSE NoFileType

_get_file_type(file_name) ==
    LET lower_name == LowerName(file_name)
    IN  IF EndsWith(lower_name, <<".", "p", "d", "f">>) THEN "pdf"
        ELSE IF EndsWith(lower_name, <<".", "d", "o", "c", "x">>) THEN "docx"
        ELSE IF EndsWith(lower_name, <<".", "t", "x", "t">>) THEN "txt"
        ELSE NoFileType

\* the branches of parse_file that extract text
ParsedTypes == {"pdf", "docx", "txt"}

\* parse_file: the text extracted; no branch is taken for another type and
\* text stays ""
ExtractedText(in, file_type) == IF file_type \in ParsedTypes THEN in.text ELSE <<>>

\* PdfReader, docx.Document or decode('utf-8') raises
ExtractionFails(in, file_type) == file_type \in ParsedTypes /\ in.corrupt

\* get_embeddings(chunks), one vector per chunk
DocVectors(chunks) == [k \in 1..Len(chunks) |-> <<1, 0, 0>>]

DocInit ==
    /\ ChunkOff /\ SearchOff /\ StoreEmpty /\ FlowOff /\ CompOff /\ CallOff /\ EmbedOff
    /\ DocIdle("idle")

\* where a call goes when a step of it raises: handle_document has an
\* except clause, ina_process_message raises to its caller
RaiseTo(p) == IF d_in[p].entry = "document" THEN "except" ELSE "end"

\* handle_document, lines 444-458: no file type, the reply and return
handle_document_unsupported(p) ==
    /\ d_pc[p] = "idle"
    /\ \E n \in FileNames, u \in CallUsers, c \in BOOLEAN, t \in DocTexts :
          /\ _get_file_type(n) = NoFileType
          /\ d_in' = [d_in EXCEPT ![p] = [entry |-> "document", user_id |-> u, chat_id |-> u,
                                          file_name |-> n, corrupt |-> c, text |-> t]]
    /\ d_replies' = [d_replies EXCEPT ![p] = Append(@, "unsupported")]
    /\ d_loc' = [d_loc EXCEPT ![p].result = "rejected"]
    /\ d_pc' = [d_pc EXCEPT ![p] = "end"]
    /\ UNCHANGED <<d_provider, storeVars>>
    /\ UNCHANGED <<chunkVars, searchVars, flowVars, compVars, callVars, embedVars>>

\* handle_document with a file type: download, then _process_file
handle_document(p) ==
    /\ d_pc[p] = "idle"
    /\ \E n \in FileNames, u \in CallUsers, c \in BOOLEAN, t \in DocTexts :
          /\ _get_file_type(n) # NoFileType
          /\ d_in' = [d_in EXCEPT ![p] = [entry |-> "document", user_id |-> u, chat_id |-> u,
                                          file_name |-> n, corrupt |-> c, text |-> t]]
          /\ d_loc' = [d_loc EXCEPT ![p].file_type = _get_file_type(n)]
    /\ d_pc' = [d_pc EXCEPT ![p] = "parse"]
    /\ UNCHANGED <<d_replies, d_provider, storeVars>>
    /\ UNCHANGED <<chunkVars, searchVars, flowVars, compVars, callVars, embedVars>>

\* get_file or download_as_bytearray raises
download_raises(p) ==
    /\ d_pc[p] = "parse"
    /\ d_in[p].entry = "document"
    /\ d_loc[p].full_text = <<>> /\ d_loc[p].result = "none"
    /\ d_loc' = [d_loc EXCEPT ![p].error = "download"]
    /\ d_pc' = [d_pc EXCEPT ![p] = "except"]
    /\ UNCHANGED <<d_in, d_replies, d_provider, storeVars>>
    /\ UNCHANGED <<chunkVars, searchVars, flowVars, compVars, callVars, embedVars>>

\* parse_file_raises with the message row saved first
ParseRaisesAfterSave(p) ==
    /\ d_pc[p] = "parse"
    /\ d_in[p].entry = "document"
    /\ ExtractionFails(d_in[p], d_loc[p].file_type)
    /\ ina_messages' = insert(ina_messages,
                             <<NewMessage(d_in[p].user_id, d_in[p].chat_id, <<>>,
                                          d_loc[p].file_type)>>)
    /\ now' = now + 1
    /\ d_loc' = [d_loc EXCEPT ![p].result = "raised", ![p].error = "extraction"]
    /\ d_pc' = [d_pc EXCEPT ![p] = "except"]
    /\ UNCHANGED <<d_in, d_replies, d_provider, ina_message_embeddings>>
    /\ UNCHANGED <<chunkVars, searchVars, flowVars, compVars, callVars, embedVars>>

\* ina_process_file, line 17: parse_file raises on the content
parse_file_raises(p) ==
    /\ d_pc[p] = "parse"
    /\ d_in[p].entry = "document"
    /\ ExtractionFails(d_in[p], d_loc[p].file_type)
    /\ d_loc' = [d_loc EXCEPT ![p].result = "raised", ![p].error = "extraction"]
    /\ d_pc' = [d_pc EXCEPT ![p] = "except"]
    /\ UNCHANGED <<d_in, d_replies, d_provider, storeVars>>
    /\ UNCHANGED <<chunkVars, searchVars, flowVars, compVars, callVars, embedVars>>

\* ina_process_file, line 17: parse_file returns the text and its chunks
parse_file(p) ==
    /\ d_pc[p] = "parse"
    /\ d_in[p].entry = "document"
    /\ ~ExtractionFails(d_in[p], d_loc[p].file_type)
    /\ LET text == _normalize_text(ExtractedText(d_in[p], d_loc[p].file_type))
       IN  d_loc' = [d_loc EXCEPT ![p].full_text = text,
                                  ![p].chunks = chunk_text(text, DefaultMaxChunkSize,
                                                           DefaultOverlap)]
    /\ d_pc' = [d_pc EXCEPT ![p] = "save"]
    /\ UNCHANGED <<d_in, d_replies, d_provider, storeVars>>
    /\ UNCHANGED <<chunkVars, searchVars, flowVars, compVars, callVars, embedVars>>

\* _process_message: ina_process_message, line 41, chunk_text
ina_process_message(p) ==
    /\ d_pc[p] = "idle"
    /\ \E u \in CallUsers, t \in DocTexts :
          /\ d_in' = [d_in EXCEPT ![p] = [entry |-> "message", user_id |-> u, chat_id |-> u,
                                          file_name |-> <<>>, corrupt |-> FALSE, text |-> t]]
          /\ d_loc' = [d_loc EXCEPT ![p].chunks = chunk_text(t, DefaultMaxChunkSize,
                                                             DefaultOverlap)]
    /\ d_pc' = [d_pc EXCEPT ![p] = "save"]
    /\ UNCHANGED <<d_replies, d_provider, storeVars>>
    /\ UNCHANGED <<chunkVars, searchVars, flowVars, compVars, callVars, embedVars>>

\* the row ina_save_message is called for by call p
DocMessage(p) ==
    IF d_in[p].entry = "document"
    THEN NewMessage(d_in[p].user_id, d_in[p].chat_id, <<>>, d_loc[p].file_type)
    ELSE NewMessage(d_in[p].user_id, d_in[p].chat_id, d_in[p].text, "none")

\* ina_save_message: the insert and the id of the row it returns
doc_save_message(p) ==
    /\ d_pc[p] = "save"
    /\ ina_messages' = insert(ina_messages, <<DocMessage(p)>>)
    /\ now' = now + 1
    /\ d_loc' = [d_loc EXCEPT ![p].message_id = Len(ina_messages) + 1]
    /\ d_pc' = [d_pc EXCEPT ![p] = "embed"]
    /\ UNCHANGED <<d_in, d_replies, d_provider, ina_message_embeddings>>
    /\ UNCHANGED <<chunkVars, searchVars, flowVars, compVars, callVars, embedVars>>

doc_save_message_raises(p) ==
    /\ d_pc[p] = "save"
    /\ d_loc' = [d_loc EXCEPT ![p].result = "raised", ![p].error = "store"]
    /\ d_pc' = [d_pc EXCEPT ![p] = RaiseTo(p)]
    /\ UNCHANGED <<d_in, d_replies, d_provider, storeVars>>
    /\ UNCHANGED <<chunkVars, searchVars, flowVars, compVars, callVars, embedVars>>

\* get_embeddings(chunks): no call of the provider for an empty list
doc_get_embeddings(p) ==
    /\ d_pc[p] = "embed"
    /\ d_loc' = [d_loc EXCEPT ![p].embeddings = DocVectors(d_loc[p].chunks)]
    /\ d_provider' = [d_provider EXCEPT
                         ![p] = IF d_loc[p].chunks = <<>> THEN @ ELSE @ + 1]
    /\ d_pc' = [d_pc EXCEPT ![p] = "store"]
    /\ UNCHANGED <<d_in, d_replies, storeVars>>
    /\ UNCHANGED <<chunkVars, searchVars, flowVars, compVars, callVars, embedVars>>

doc_get_embeddings_raises(p) ==
    /\ d_pc[p] = "embed"
    /\ d_loc[p].chunks # <<>>
    /\ d_loc' = [d_loc EXCEPT ![p].result = "raised", ![p].error = "provider"]
    /\ d_provider' = [d_provider EXCEPT ![p] = @ + 1]
    /\ d_pc' = [d_pc EXCEPT ![p] = RaiseTo(p)]
    /\ UNCHANGED <<d_in, d_replies, storeVars>>
    /\ UNCHANGED <<chunkVars, searchVars, flowVars, compVars, callVars, embedVars>>

\* message_id_of with the id of the row saved last in the table
LastSavedId(p) == Len(ina_messages)

\* the local message_id of call p
message_id_of(p) == d_loc[p].message_id

\* ina_save_embeddings(message_id, chunks, embeddings); the call returns
doc_save_embeddings(p) ==
    /\ d_pc[p] = "store"
    /\ ina_message_embeddings' =
           insert(ina_message_embeddings,
                  EmbeddingRows(message_id_of(p), d_loc[p].chunks, d_loc[p].embeddings))
    /\ d_loc' = [d_loc EXCEPT ![p].result = "returned"]
    /\ d_pc' = [d_pc EXCEPT ![p] = IF d_in[p].entry = "document" THEN "file_context"
                                   ELSE "end"]
    /\ UNCHANGED <<d_in, d_replies, d_provider, ina_messages, now>>
    /\ UNCHANGED <<chunkVars, searchVars, flowVars, compVars, callVars, embedVars>>

doc_save_embeddings_raises(p) ==
    /\ d_pc[p] = "store"
    /\ d_loc' = [d_loc EXCEPT ![p].result = "raised", ![p].error = "store"]
    /\ d_pc' = [d_pc EXCEPT ![p] = RaiseTo(p)]
    /\ UNCHANGED <<d_in, d_replies, d_provider, storeVars>>
    /\ UNCHANGED <<chunkVars, searchVars, flowVars, compVars, callVars, embedVars>>

\* _get_file_context, then reply_text(response)
doc_reply_text(p) ==
    /\ d_pc[p] = "file_context"
    /\ d_replies' = [d_replies EXCEPT ![p] = Append(@, "processed")]
    /\ d_pc' = [d_pc EXCEPT ![p] = "end"]
    /\ UNCHANGED <<d_in, d_loc, d_provider, storeVars>>
    /\ UNCHANGED <<chunkVars, searchVars, flowVars, compVars, callVars, embedVars>>

\* _get_file_context or reply_text raises
doc_reply_text_raises(p) ==
    /\ d_pc[p] = "file_context"
    /\ d_pc' = [d_pc EXCEPT ![p] = "except"]
    /\ UNCHANGED <<d_in, d_loc, d_replies, d_provider, storeVars>>
    /\ UNCHANGED <<chunkVars, searchVars, flowVars, compVars, callVars, embedVars>>

\* the except clause of handle_document: log and reply with the apology
doc_reply_text_apology(p) ==
    /\ d_pc[p] = "except"
    /\ d_replies' = [d_replies EXCEPT ![p] = Append(@, "apology")]
    /\ d_pc' = [d_pc EXCEPT ![p] = "end"]
    /\ UNCHANGED <<d_in, d_loc, d_provider, storeVars>>
    /\ UNCHANGED <<chunkVars, searchVars, flowVars, compVars, callVars, embedVars>>

\* reply_text raises inside the except clause: handle_document raises
doc_reply_text_apology_raises(p) ==
    /\ d_pc[p] = "except"
    /\ d_pc' = [d_pc EXCEPT ![p] = "raised"]
    /\ UNCHANGED <<d_in, d_loc, d_replies, d_provider, storeVars>>
    /\ UNCHANGED <<chunkVars, searchVars, flowVars, compVars, callVars, embedVars>>

DocNext ==
    \/ \E p \in Calls : handle_document_unsupported(p)
    \/ \E p \in Calls : handle_document(p)
    \/ \E p \in Calls : download_raises(p)
    \/ \E p \in Calls : parse_file_raises(p)
    \/ \E p \in Calls : parse_file(p)
    \/ \E p \in Calls : ina_process_message(p)
    \/ \E p \in Calls : doc_save_message(p)
    \/ \E p \in Calls : doc_save_message_raises(p)
    \/ \E p \in Calls : doc_get_embeddings(p)
    \/ \E p \in Calls : doc_get_embeddings_raises(p)
    \/ \E p \in Calls : doc_save_embeddings(p)
    \/ \E p \in Calls : doc_save_embeddings_raises(p)
    \/ \E p \in Calls : doc_reply_text(p)
    \/ \E p \in Calls : doc_reply_text_raises(p)
    \/ \E p \in Calls : doc_reply_text_apology(p)
    \/ \E p \in Calls : doc_reply_text_apology_raises(p)

SpecDoc == DocInit /\ [][DocNext]_vars

(***************************************************************************)
(* Properties of handle_document and of the two concurrent calls           *)
(***************************************************************************)
\* call p handles a document whose name gives no supported type
Unsupported(p) ==
    d_in[p].entry = "document" /\ _get_file_type(d_in[p].file_name) \notin ParsedTypes

\* the calls that have saved the message row with this id
SaversOf(id) == {q \in Calls : d_loc[q].message_id = id}

C27_ExtractionFailureLeavesStore ==
    \A p \in Calls :
        d_loc[p].error = "extraction" =>
            /\ d_loc[p].result = "raised"
            /\ d_loc[p].message_id = 0 /\ d_loc[p].chunks = <<>>
            /\ d_provider[p] = 0
            /\ \A k \in 1..Len(ina_messages) :
                  SaversOf(ina_messages[k].id) \ {p} # {}
            /\ \A j \in 1..Len(ina_message_embeddings) :
                  SaversOf(ina_message_embeddings[j].message_id) \ {p} # {}

\* both calls got a corrupt pdf: the store is empty and both sent the
\* apology
C27_Witness ==
    /\ \A p \in Calls :
          /\ d_loc[p].error = "extraction" /\ d_loc[p].file_type = "pdf"
          /\ d_pc[p] = "end" /\ d_replies[p] = <<"apology">>
    /\ ina_messages = <<>> /\ ina_message_embeddings = <<>>

\* the embedding rows stored for the message of call p
RowsOfDocCall(p) ==
    SelectSeq(ina_message_embeddings, LAMBDA e : e.message_id = d_loc[p].message_id)

\* C29: under every interleaving of the two calls, the calls that saved a
\* message got different ids, the row under a call's id is the row of that
\* call, every embedding row belongs to the message of a call and carries
\* a chunk of that call's input, and a call that returned has exactly its
\* own chunks stored for its message.
C29_CallsIndependent ==
    /\ \A p, q \in Calls :
          (p # q /\ d_loc[p].message_id # 0) => d_loc[p].message_id # d_loc[q].message_id
    /\ \A p \in Calls :
          d_loc[p].message_id # 0 =>
              /\ d_loc[p].message_id \in 1..Len(ina_messages)
              /\ ina_messages[d_loc[p].message_id].user_id = d_in[p].user_id
              /\ ina_messages[d_loc[p].message_id].text =
                    (IF d_in[p].entry = "message" THEN d_in[p].text ELSE <<>>)
              /\ ina_messages[d_loc[p].message_id].file =
                    (IF d_in[p].entry = "message" THEN "none" ELSE d_loc[p].file_type)
    /\ \A j \in 1..Len(ina_message_embeddings) :
          \E p \in Calls :
              /\ d_loc[p].message_id = ina_message_embeddings[j].message_id
              /\ \E k \in 1..Len(d_loc[p].chunks) :
                    /\ ina_message_embeddings[j].chunk_text = d_loc[p].chunks[k]
                    /\ ina_message_embeddings[j].chunk_index = k - 1
    /\ \A p \in Calls :
          d_loc[p].result = "returned" =>
              [k \in 1..Len(RowsOfDocCall(p)) |-> RowsOfDocCall(p)[k].chunk_text]
                  = d_loc[p].chunks

\* a message and a file with different texts: call 2 saved its message
\* first, call 1 stored its embedding row first, and both returned
C29_Witness ==
    /\ d_in[1].entry = "message" /\ d_in[2].entry = "document"
    /\ d_in[1].text # d_in[2].text
    /\ d_loc[1].message_id = 2 /\ d_loc[2].message_id = 1
    /\ d_loc[1].result = "returned" /\ d_loc[2].result = "returned"
    /\ Len(ina_message_embeddings) = 2
    /\ ina_message_embeddings[1].message_id = 2
    /\ ina_message_embeddings[1].chunk_text = d_loc[1].chunks[1]

====
